---- MODULE Spec2Model ----
(***************************************************************************)
(* A model of the Sparkify ETL job (etl.py, sql_queries.py): main() opens  *)
(* one database connection, runs process_data over data/song_data with     *)
(* process_song_file and then over data/log_data with process_log_file,    *)
(* committing once per file.  The database is modelled by its five tables, *)
(* with the constraints of the CREATE TABLE statements and the conflict    *)
(* clauses of the INSERT statements.                                       *)
(***************************************************************************)
EXTENDS Integers, Sequences, FiniteSets, TLC

\* ------------------------------------------------------------------ bounds
\* Most song files under data/song_data in the runs of SpecSongs.
MaxSongFiles == 2
\* Most events in the log file of SpecLogFile.
MaxEvents == 3
\* Most log files under data/log_data, and most events in each, in SpecRun.
MaxLogFiles == 3
MaxRunEvents == 3
\* Most directory entries in the trees of SpecWalk.
MaxEntries == 2

\* ------------------------------------------------------------------ values
\* SQL NULL, Python None, a JSON null.
NULL == "NULL"

\* The columns process_song_file projects for the songs row and the artists row.
SongColumns == {"song_id", "title", "artist_id", "year", "duration"}
ArtistColumns == {"artist_id", "artist_name", "artist_location", "artist_latitude", "artist_longitude"}

\* One song file: the record of its single line; absent names a column the
\* JSON does not carry ("none": all are there).
SongRec(sid, t, aid, y, d, an, ab) == [song_id |-> sid, title |-> t, artist_id |-> aid, year |-> y, duration |-> d, artist_name |-> an, artist_location |-> "L", artist_latitude |-> "1.0", artist_longitude |-> "2.0", absent |-> ab]

sfA == SongRec("SOID1", "T", "ARID1", 2000, "210.5", "A", "none")
\* the same artist_id under another name
sfB == SongRec("SOID2", "U", "ARID1", 0, "123.4", "B", "none")
\* the same song_id with another title
sfC == SongRec("SOID1", "V", "ARID2", 1999, "99.0", "C", "none")
\* a second song/artist pair with sfA's title, artist name and duration
sfD == SongRec("SOID3", "T", "ARID3", 2001, "210.5", "A", "none")
\* malformed: no artist_name column; no title column
sfE == SongRec("SOID4", "W", "ARID4", 2002, "50.0", NULL, "artist_name")
sfF == SongRec("SOID5", NULL, "ARID5", 2003, "60.0", "F", "title")

SongRecords == {sfA, sfB, sfC, sfD, sfE, sfF}

\* One log event (one line of a log file).  ts is epoch milliseconds.
Event(p, t, u, lv, s, a, len, sess) == [page |-> p, ts |-> t, userId |-> u, firstName |-> "Fn", lastName |-> "Ln", gender |-> "F", level |-> lv, song |-> s, artist |-> a, length |-> len, sessionId |-> sess, location |-> "Loc", userAgent |-> "UA"]

\* ts 3600000 is 1970-01-01 01:00:00.000, ts 431999999 is 1970-01-05 23:59:59.999
evFree == Event("NextSong", 3600000, 7, "free", "T", "A", "210.5", 1)
evPaid == Event("NextSong", 3600000, 7, "paid", "T", "A", "210.5", 2)
\* sfA's title and artist name, another length: no pair matches
evMiss == Event("NextSong", 431999999, 7, "free", "T", "A", "210.4", 3)
evHome == Event("Home", 431999999, 7, "paid", NULL, NULL, NULL, 4)
evOther == Event("NextSong", 431999999, 8, "free", "T", "A", "210.5", 5)

LogEvents == {evFree, evPaid, evMiss, evHome, evOther}
RunEvents == {evFree, evPaid, evMiss}

\* All sequences over S of length at most n.
SeqsUpTo(S, n) == UNION {[1..k -> S] : k \in 0..n}

\* ------------------------------------------------------ pandas operations
\* DataFrame.drop_duplicates(): the rows in order, each kept at its first occurrence.
RECURSIVE DropDuplicatesFrom(_, _)
DropDuplicatesFrom(rows, kept) == IF rows = <<>> THEN kept ELSE DropDuplicatesFrom(Tail(rows), IF \E i \in DOMAIN kept : kept[i] = Head(rows) THEN kept ELSE Append(kept, Head(rows)))

\* Mutant: the frame is taken as it is, duplicates kept.
DropDuplicatesOmitted(rows) == rows

DropDuplicates(rows) == DropDuplicatesFrom(rows, <<>>)

\* df.query("page == 'NextSong'")
IsNextSong(e) == e.page = "NextSong"

FilterNextSong(events) == SelectSeq(events, IsNextSong)

\* pd.to_datetime(ts, unit='ms') and the Timestamp attributes read from it.
\* The Timestamp is kept as its millisecond count; the calendar fields are
\* computed from the day number (days since 1970-01-01, proleptic Gregorian).
MsPerHour == 3600000
MsPerDay == 86400000

DayNumber(ts) == ts \div MsPerDay

Hour(ts) == (ts % MsPerDay) \div MsPerHour

\* Timestamp.dayofweek: Monday = 0 .. Sunday = 6; 1970-01-01 was a Thursday.
DayOfWeek(ts) == (DayNumber(ts) + 3) % 7

\* The civil date of a day number, as [year, month, day, ordinal].
CivilFromDays(n) ==
    LET z == n + 719468
        era == z \div 146097
        doe == z - era * 146097
        yoe == (doe - doe \div 1460 + doe \div 36524 - doe \div 146096) \div 365
        doy == doe - (365 * yoe + yoe \div 4 - yoe \div 100)
        mp == (5 * doy + 2) \div 153
        d == doy - (153 * mp + 2) \div 5 + 1
        m == IF mp < 10 THEN mp + 3 ELSE mp - 9
        y == yoe + era * 400 + (IF m <= 2 THEN 1 ELSE 0)
        leap == (y % 4 = 0 /\ y % 100 # 0) \/ y % 400 = 0
        ord == IF m <= 2 THEN doy - 305 ELSE doy + 60 + (IF leap THEN 1 ELSE 0)
    IN  [year |-> y, month |-> m, day |-> d, ordinal |-> ord]

\* The number of ISO weeks of year y (52 or 53).
IsoWeeksIn(y) ==
    LET p(k) == (k + k \div 4 - k \div 100 + k \div 400) % 7
    IN  IF p(y) = 4 \/ p(y - 1) = 3 THEN 53 ELSE 52

\* Timestamp.week: the ISO 8601 week number.
IsoWeek(ts) ==
    LET c == CivilFromDays(DayNumber(ts))
        w == (c.ordinal - (DayOfWeek(ts) + 1) + 10) \div 7
    IN  IF w < 1 THEN IsoWeeksIn(c.year - 1) ELSE IF w > IsoWeeksIn(c.year) THEN 1 ELSE w

\* The row of time_df derived from one retained event.
TimeRow(e) ==
    LET c == CivilFromDays(DayNumber(e.ts))
    IN  [start_time |-> e.ts, hour |-> Hour(e.ts), day |-> c.day, week |-> IsoWeek(e.ts), month |-> c.month, year |-> c.year, weekday |-> DayOfWeek(e.ts)]

\* The row of user_df projected from one retained event.
UserRow(e) == [user_id |-> e.userId, first_name |-> e.firstName, last_name |-> e.lastName, gender |-> e.gender, level |-> e.level]

\* time_df and user_df of a filtered frame df.
TimeDf(df) == DropDuplicates([i \in DOMAIN df |-> TimeRow(df[i])])

UserDf(df) == DropDuplicates([i \in DOMAIN df |-> UserRow(df[i])])

\* ------------------------------------------------------------- the database
\* The five tables after create_tables: songs, artists, users and time hold at
\* most one row per primary key; songplays rows are kept in insertion order.
\* The ids of the inputs stand for 18-character ids, which char (18) stores as
\* given, and durations are kept as the decimal text both the insert and the
\* select pass to the server.
EmptyDb == [songs |-> {}, artists |-> {}, users |-> {}, time |-> {}, songplays |-> <<>>]

\* Mutant: ON CONFLICT (song_id) DO UPDATE of every column.
InsertSongOverwrite(db, row) == [db EXCEPT !.songs = {r \in @ : r.song_id # row.song_id} \cup {row}]

\* song_table_insert: INSERT ... ON CONFLICT (song_id) DO NOTHING
InsertSong(db, row) == IF \E r \in db.songs : r.song_id = row.song_id THEN db ELSE [db EXCEPT !.songs = @ \cup {row}]

\* artist_table_insert: INSERT ... ON CONFLICT (artist_id) DO NOTHING
InsertArtist(db, row) == IF \E r \in db.artists : r.artist_id = row.artist_id THEN db ELSE [db EXCEPT !.artists = @ \cup {row}]

\* time_table_insert: INSERT ... ON CONFLICT (start_time) DO NOTHING
InsertTime(db, row) == IF \E r \in db.time : r.start_time = row.start_time THEN db ELSE [db EXCEPT !.time = @ \cup {row}]

\* Mutant: ON CONFLICT (user_id) DO NOTHING.
InsertUserIgnore(db, row) == IF \E r \in db.users : r.user_id = row.user_id THEN db ELSE [db EXCEPT !.users = @ \cup {row}]

\* user_table_insert: INSERT ... ON CONFLICT (user_id) DO UPDATE SET level = EXCLUDED.level
InsertUser(db, row) == IF \E r \in db.users : r.user_id = row.user_id THEN [db EXCEPT !.users = {IF r.user_id = row.user_id THEN [r EXCEPT !.level = row.level] ELSE r : r \in @}] ELSE [db EXCEPT !.users = @ \cup {row}]

\* The NOT NULL columns of songplays that a row of the model can leave NULL
\* (start_time and user_id are NOT NULL too, and every event carries them).
SongplayNotNull(row) == row.song_id # NULL /\ row.artist_id # NULL

\* songplay_table_insert: INSERT INTO songplays VALUES (..., DEFAULT); the row
\* takes the next value of the songplay_id sequence, and the insert is refused
\* when a NOT NULL column is NULL.
StoredSongplay(row, id) == [start_time |-> row.start_time, user_id |-> row.user_id, level |-> row.level, song_id |-> row.song_id, artist_id |-> row.artist_id, session_id |-> row.session_id, location |-> row.location, user_agent |-> row.user_agent, songplay_id |-> id]

InsertSongplay(db, row, id) == IF SongplayNotNull(row) THEN [db |-> [db EXCEPT !.songplays = Append(@, StoredSongplay(row, id))], err |-> "none"] ELSE [db |-> db, err |-> "NotNullViolation"]

\* An SQL comparison a = b: not true when either side is NULL.
SqlEq(a, b) == a # NULL /\ b # NULL /\ a = b

\* songs s LEFT JOIN artists a ON s.artist_id = a.artist_id: every song with
\* each artist of its artist_id, or with NULLs when there is none.
LeftJoin(db) == UNION {IF \E a \in db.artists : SqlEq(s.artist_id, a.artist_id) THEN {[s |-> s, artist_name |-> a.artist_name] : a \in {x \in db.artists : SqlEq(s.artist_id, x.artist_id)}} ELSE {[s |-> s, artist_name |-> NULL]} : s \in db.songs}

\* song_select: the (song_id, artist_id) of the joined rows with the title,
\* artist name and duration given.
SongSelect(db, song, artist, length) == {<<j.s.song_id, j.s.artist_id>> : j \in {x \in LeftJoin(db) : SqlEq(x.s.title, song) /\ SqlEq(x.artist_name, artist) /\ SqlEq(x.s.duration, length)}}

\* cur.fetchone(): None when there is no result, else the first one; the
\* query has no ORDER BY, so the first may be any of them.
FetchOne(results) == IF results = {} THEN {<<>>} ELSE results

\* ------------------------------------------------------------ the handlers
\* process_song_file: the songs row and then the artists row of the file's
\* record.  Selecting a column the record lacks raises KeyError: before any
\* statement for a songs column, after the songs insert for an artists column.
SongData(f) == [song_id |-> f.song_id, title |-> f.title, artist_id |-> f.artist_id, year |-> f.year, duration |-> f.duration]

ArtistData(f) == [artist_id |-> f.artist_id, artist_name |-> f.artist_name, artist_location |-> f.artist_location, artist_latitude |-> f.artist_latitude, artist_longitude |-> f.artist_longitude]

process_song_file(db, f) ==
    IF f.absent \in SongColumns THEN [db |-> db, err |-> "KeyError"]
    ELSE LET db1 == InsertSong(db, SongData(f))
         IN  IF f.absent \in ArtistColumns THEN [db |-> db1, err |-> "KeyError"]
             ELSE [db |-> InsertArtist(db1, ArtistData(f)), err |-> "none"]

\* for i, row in time_df.iterrows(): cur.execute(time_table_insert, list(row))
RECURSIVE InsertTimes(_, _)
InsertTimes(db, rows) == IF rows = <<>> THEN db ELSE InsertTimes(InsertTime(db, Head(rows)), Tail(rows))

\* for i, row in user_df.iterrows(): cur.execute(user_table_insert, row)
RECURSIVE InsertUsers(_, _)
InsertUsers(db, rows) == IF rows = <<>> THEN db ELSE InsertUsers(InsertUser(db, Head(rows)), Tail(rows))

\* Mutant: the two results unpacked in the other order.
SongplayDataSwapped(row, results) ==
    LET songid == IF results # <<>> THEN results[2] ELSE NULL
        artistid == IF results # <<>> THEN results[1] ELSE NULL
    IN  [start_time |-> row.ts, user_id |-> row.userId, level |-> row.level, song_id |-> songid, artist_id |-> artistid, session_id |-> row.sessionId, location |-> row.location, user_agent |-> row.userAgent]

\* songplay_data of one retained row and the result of fetchone().
SongplayData(row, results) ==
    LET songid == IF results # <<>> THEN results[1] ELSE NULL
        artistid == IF results # <<>> THEN results[2] ELSE NULL
    IN  [start_time |-> row.ts, user_id |-> row.userId, level |-> row.level, song_id |-> songid, artist_id |-> artistid, session_id |-> row.sessionId, location |-> row.location, user_agent |-> row.userAgent]

\* The columns the songplay loop reads as attributes of the row.
RowAttributes == {"song", "artist", "length", "ts", "userId", "level", "sessionId", "location", "userAgent"}

\* The songplay loop of process_log_file over the rows of df still to do: the
\* outcomes it can end in, one per choice of fetchone().  plays collects the
\* songplay_data built, serial is the last value of the songplay_id sequence
\* (taken by every insert, refused or not).
RECURSIVE SongplayLoop(_, _, _, _, _)
SongplayLoop(db, serial, df, plays, absent) ==
    IF df = <<>> THEN {[db |-> db, serial |-> serial, plays |-> plays, err |-> "none"]}
    ELSE IF absent \in RowAttributes THEN {[db |-> db, serial |-> serial, plays |-> plays, err |-> "AttributeError"]}
    ELSE UNION {LET data == SongplayData(Head(df), res)
                    ins == InsertSongplay(db, data, serial + 1)
                IN  IF ins.err # "none"
                    THEN {[db |-> db, serial |-> serial + 1, plays |-> Append(plays, data), err |-> ins.err]}
                    ELSE SongplayLoop(ins.db, serial + 1, Tail(df), Append(plays, data), absent)
                : res \in FetchOne(SongSelect(db, Head(df).song, Head(df).artist, Head(df).length))}

\* The columns process_log_file selects by name before its first statement
\* (the filter and the time features), and for user_df after the time inserts.
TimeColumns == {"page", "ts"}
UserColumns == {"userId", "firstName", "lastName", "gender", "level"}

\* process_log_file on a file with the events given: the outcomes it can end
\* in, each with the connection's tables, the sequence value, the error raised
\* ("none": it returned) and the frames and rows it built.
process_log_file(db, serial, f) ==
    LET df == FilterNextSong(f.events)
        time_df == TimeDf(df)
        user_df == UserDf(df)
        db1 == InsertTimes(db, time_df)
        db2 == InsertUsers(db1, user_df)
        Local(o, t, u) == [db |-> o.db, serial |-> o.serial, err |-> o.err, df |-> df, time_df |-> t, user_df |-> u, plays |-> o.plays]
    IN  IF f.absent \in TimeColumns THEN {Local([db |-> db, serial |-> serial, plays |-> <<>>, err |-> "KeyError"], <<>>, <<>>)}
        ELSE IF f.absent \in UserColumns THEN {Local([db |-> db1, serial |-> serial, plays |-> <<>>, err |-> "KeyError"], time_df, <<>>)}
        ELSE {Local(o, time_df, user_df) : o \in SongplayLoop(db2, serial, df, <<>>, f.absent)}

\* ------------------------------------------------------- file discovery
\* A directory tree in os.walk order: whether the root exists and, for each
\* file below it, its kind ("json": *.json; "checkpoint": *.json under
\* .ipynb_checkpoints; "other": any other name) and its parsed content.
IsJson(e) == e.kind \in {"json", "checkpoint"}
NotCheckpoint(e) == e.kind # "checkpoint"

\* Mutant: a root that does not exist is an error.
DiscoverRaises(dir) == IF ~dir.exists THEN [err |-> "NotFoundError", files |-> <<>>] ELSE [err |-> "none", files |-> SelectSeq(SelectSeq(dir.entries, IsJson), NotCheckpoint)]

\* all_files of process_data: os.walk (which yields nothing for a root it
\* cannot list: it has no onerror), glob('*.json') in each directory, then the
\* .ipynb_checkpoints filter.
Discover(dir) == IF ~dir.exists THEN [err |-> "none", files |-> <<>>] ELSE [err |-> "none", files |-> SelectSeq(SelectSeq(dir.entries, IsJson), NotCheckpoint)]

\* ------------------------------------------------------------- the state
VARIABLES
    fs,         \* the two data trees: [song_data, log_data]
    pc,         \* where main() is
    all_files,  \* process_data: the files found for the phase
    i,          \* process_data: files of the phase processed and committed
    db,         \* the tables as the connection sees them (its open transaction)
    committed,  \* the tables as committed
    serial,     \* last value of the songplay_id sequence (never rolled back)
    err,        \* the exception that ended the run, "none" while there is none
    last,       \* the frames and rows of the latest process_log_file call
    calls,      \* history: the func calls of this run, with the tables committed before each
    rerun,      \* history: this is the second run of main() over the same trees
    first,      \* history: the tables committed when the first run ended
    loaded      \* history: the retained events of the log files committed so far

vars == <<fs, pc, all_files, i, db, committed, serial, err, last, calls, rerun, first, loaded>>

NoCall == [db |-> EmptyDb, serial |-> 0, err |-> "none", df |-> <<>>, time_df |-> <<>>, user_df |-> <<>>, plays |-> <<>>, events |-> <<>>, before |-> EmptyDb, run |-> FALSE]

\* Mutant: the commit is reached whether or not func raised.
CommitAlways(old, r) == r.db

\* conn.commit() after func(cur, datafile) returned; an exception from func
\* leaves the loop before the commit.
CommitFile(old, r) == IF r.err = "none" THEN r.db ELSE old

JsonDir(contents) == [exists |-> TRUE, entries |-> [k \in DOMAIN contents |-> [kind |-> "json", content |-> contents[k]]]]

LogFile(events, absent) == [events |-> events, absent |-> absent]

InitOver(songDirs, logDirs) ==
    /\ fs \in [song_data : songDirs, log_data : logDirs]
    /\ pc = "init"
    /\ all_files = <<>>
    /\ i = 0
    /\ db = EmptyDb
    /\ committed = EmptyDb
    /\ serial = 0
    /\ err = "none"
    /\ last = NoCall
    /\ calls = <<>>
    /\ rerun = FALSE
    /\ first = EmptyDb
    /\ loaded = <<>>

\* main: psycopg2.connect and conn.cursor(): a new session sees the committed tables.
Connect ==
    /\ pc = "init"
    /\ pc' = "song_walk"
    /\ db' = committed
    /\ UNCHANGED <<fs, all_files, i, committed, serial, err, last, calls, rerun, first, loaded>>

\* process_data, up to the "files found" line, for the tree and phase given.
Walk(dir, loop) ==
    LET w == Discover(dir)
    IN  /\ all_files' = w.files
        /\ i' = 0
        /\ err' = w.err
        /\ pc' = IF w.err = "none" THEN loop ELSE "aborted"
        /\ UNCHANGED <<fs, db, committed, serial, last, calls, rerun, first, loaded>>

WalkSongs == pc = "song_walk" /\ Walk(fs.song_data, "song_loop")

WalkLogs == pc = "log_walk" /\ Walk(fs.log_data, "log_loop")

\* One turn of process_data's loop with func = process_song_file.
SongFile ==
    /\ pc = "song_loop"
    /\ i < Len(all_files)
    /\ LET r == process_song_file(db, all_files[i + 1].content)
       IN  /\ db' = r.db
           /\ committed' = CommitFile(committed, r)
           /\ err' = r.err
           /\ i' = IF r.err = "none" THEN i + 1 ELSE i
           /\ pc' = IF r.err = "none" THEN pc ELSE "aborted"
           /\ calls' = Append(calls, [phase |-> "song", file |-> i + 1, err |-> r.err, before |-> committed, after |-> committed'])
    /\ UNCHANGED <<fs, all_files, serial, last, rerun, first, loaded>>

\* One turn of process_data's loop with func = process_log_file.
LogFileStep ==
    /\ pc = "log_loop"
    /\ i < Len(all_files)
    /\ \E r \in process_log_file(db, serial, all_files[i + 1].content) :
           /\ db' = r.db
           /\ committed' = CommitFile(committed, r)
           /\ serial' = r.serial
           /\ err' = r.err
           /\ i' = IF r.err = "none" THEN i + 1 ELSE i
           /\ pc' = IF r.err = "none" THEN pc ELSE "aborted"
           /\ last' = r @@ [events |-> all_files[i + 1].content.events, before |-> db, run |-> TRUE]
           /\ calls' = Append(calls, [phase |-> "log", file |-> i + 1, err |-> r.err, before |-> committed, after |-> committed'])
           /\ loaded' = IF r.err = "none" THEN loaded \o r.df ELSE loaded
    /\ UNCHANGED <<fs, all_files, rerun, first>>

\* process_data returns when the loop is through.
SongsDone ==
    /\ pc = "song_loop"
    /\ i = Len(all_files)
    /\ pc' = "log_walk"
    /\ UNCHANGED <<fs, all_files, i, db, committed, serial, err, last, calls, rerun, first, loaded>>

LogsDone ==
    /\ pc = "log_loop"
    /\ i = Len(all_files)
    /\ pc' = "close"
    /\ UNCHANGED <<fs, all_files, i, db, committed, serial, err, last, calls, rerun, first, loaded>>

\* conn.close()
Close ==
    /\ pc = "close"
    /\ pc' = "done"
    /\ db' = committed
    /\ UNCHANGED <<fs, all_files, i, committed, serial, err, last, calls, rerun, first, loaded>>

\* The exception leaves main(): the process ends without a commit and the
\* server rolls the open transaction back.
Exit ==
    /\ pc = "aborted"
    /\ pc' = "exited"
    /\ db' = committed
    /\ UNCHANGED <<fs, all_files, i, committed, serial, err, last, calls, rerun, first, loaded>>

\* main() is run a second time over the same trees and the same database.
Rerun ==
    /\ pc \in {"done", "exited"}
    /\ ~rerun
    /\ rerun' = TRUE
    /\ first' = committed
    /\ pc' = "init"
    /\ err' = "none"
    /\ calls' = <<>>
    /\ all_files' = <<>>
    /\ i' = 0
    /\ last' = NoCall
    /\ UNCHANGED <<fs, db, committed, serial, loaded>>

Next ==
    \/ Connect
    \/ WalkSongs
    \/ SongFile
    \/ SongsDone
    \/ WalkLogs
    \/ LogFileStep
    \/ LogsDone
    \/ Close
    \/ Exit
    \/ Rerun

\* ------------------------------------------------------ the specifications
\* Song trees of up to MaxSongFiles files, with a few log trees.
SongDirs == {JsonDir(c) : c \in SeqsUpTo(SongRecords, MaxSongFiles)}
FewLogDirs == {JsonDir(<<>>), JsonDir(<<LogFile(<<evFree, evPaid>>, "none")>>), JsonDir(<<LogFile(<<evMiss>>, "none")>>)}

InitSongs == InitOver(SongDirs, FewLogDirs)
SpecSongs == InitSongs /\ [][Next]_vars

\* One log file of up to MaxEvents events, against a few song trees.
FewSongDirs == {JsonDir(<<>>), JsonDir(<<sfA>>), JsonDir(<<sfA, sfD>>), JsonDir(<<sfB, sfA>>), JsonDir(<<sfC, sfA>>)}
OneLogDirs == {JsonDir(<<LogFile(e, "none")>>) : e \in SeqsUpTo(LogEvents, MaxEvents)}

InitLogFile == InitOver(FewSongDirs, OneLogDirs)
SpecLogFile == InitLogFile /\ [][Next]_vars

\* Log trees of up to MaxLogFiles files holding up to MaxRunEvents events in
\* all, some of them malformed, against two song trees.
RunFiles == {LogFile(e, "none") : e \in SeqsUpTo(RunEvents, MaxRunEvents)} \cup {LogFile(<<evFree>>, "level"), LogFile(<<evFree>>, "userAgent"), LogFile(<<evFree>>, "ts")}
RECURSIVE RunFileSeqs(_, _)
RunFileSeqs(n, events) == {<<>>} \cup (IF n = 0 THEN {} ELSE UNION {{<<f>> \o d : d \in RunFileSeqs(n - 1, events - Len(f.events))} : f \in {g \in RunFiles : Len(g.events) <= events}})
RunLogDirs == {JsonDir(c) : c \in RunFileSeqs(MaxLogFiles, MaxRunEvents)}
RunSongDirs == {JsonDir(<<sfA>>), JsonDir(<<sfA, sfE>>)}

InitRun == InitOver(RunSongDirs, RunLogDirs)
SpecRun == InitRun /\ [][Next]_vars

\* Trees that may not exist and may hold files that are not data files.
WalkEntries(contents) == {[kind |-> k, content |-> c] : k \in {"json", "other", "checkpoint"}, c \in contents}
WalkDirs(contents) == {[exists |-> FALSE, entries |-> <<>>]} \cup {[exists |-> TRUE, entries |-> e] : e \in SeqsUpTo(WalkEntries(contents), MaxEntries)}

InitWalk == InitOver(WalkDirs({sfA, sfF}), WalkDirs({LogFile(<<evFree>>, "none")}))
SpecWalk == InitWalk /\ [][Next]_vars

Spec == SpecLogFile

\* ------------------------------------------------------------- the claims
\* The latest process_log_file call: the events it retained and the songplays
\* rows it added to the connection's tables.
Retained == FilterNextSong(last.events)
Added == SubSeq(last.db.songplays, Len(last.before.songplays) + 1, Len(last.db.songplays))

\* The row is the one the event gives rise to (its pass-through fields).
RowOfEvent(row, e) == row.start_time = e.ts /\ row.user_id = e.userId /\ row.level = e.level /\ row.session_id = e.sessionId /\ row.location = e.location /\ row.user_agent = e.userAgent

\* The (song_id, artist_id) of the song/artist pairs in the tables whose
\* title, artist name and duration are the event's song, artist and length.
MatchingPairs(tables, e) == {<<s.song_id, a.artist_id>> : <<s, a>> \in {<<x, y>> \in tables.songs \X tables.artists : x.artist_id = y.artist_id /\ x.title = e.song /\ y.artist_name = e.artist /\ x.duration = e.length}}

\* C1: after any process_log_file call, the songplays rows it added are as
\* many as the file's NextSong events and are those events' rows, in file order.
C1_RowPerNextSongEvent == last.run => (Len(Added) = Len(Retained) /\ \A k \in DOMAIN Added : RowOfEvent(Added[k], Retained[k]))

\* C2: after any process_log_file call, every NextSong event of the file that
\* matches no song/artist pair has its row in songplays, with song_id and
\* artist_id NULL, and the call has not been ended by that row.
C2_NoMatchGivesNullIds == last.run => \A k \in DOMAIN Retained : MatchingPairs(last.before, Retained[k]) = {} => (last.err # "NotNullViolation" /\ k \in DOMAIN Added /\ Added[k].song_id = NULL /\ Added[k].artist_id = NULL)

\* C3: a func call of the run that raised is the run's last call, the run has
\* ended, every call before it returned and what each committed is what the
\* next started from, and the committed tables are those committed before the
\* failing call.
C3_FailureAbortsRun == \A k \in DOMAIN calls : (calls[k].err # "none" => (k = Len(calls) /\ pc \in {"aborted", "exited"} /\ committed = calls[k].before)) /\ (k > 1 => (calls[k - 1].err = "none" /\ calls[k].before = calls[k - 1].after))

\* C3 witness: a log file after the first has failed with time and users rows
\* written and not committed, and a file after it is left.
C3_Witness == pc = "aborted" /\ calls[Len(calls)].phase = "log" /\ i >= 1 /\ i + 1 < Len(all_files) /\ db.time # committed.time /\ db.users # committed.users

\* C4: all through a second run over the same trees, the committed songs and
\* artists tables are those the first run left, and so are the connection's
\* while no call has raised.
C4_SongPhaseIdempotent == rerun => (committed.songs = first.songs /\ committed.artists = first.artists /\ (err = "none" => (db.songs = first.songs /\ db.artists = first.artists)))

\* C4 witness: the second run's song phase is through, over two files with one
\* song_id and different titles.
C4_Witness == rerun /\ pc = "log_walk" /\ Len(all_files) = 2 /\ all_files[1].content.song_id = all_files[2].content.song_id /\ all_files[1].content.title # all_files[2].content.title /\ committed.songs # {}

\* The levels of user u's loaded events, in load order.
RECURSIVE LevelsOf(_, _)
LevelsOf(u, events) == IF events = <<>> THEN <<>> ELSE (IF Head(events).userId = u THEN <<Head(events).level>> ELSE <<>>) \o LevelsOf(u, Tail(events))

FreeThenPaid(levels) == \E n \in 1..(Len(levels) - 1) : \A k \in DOMAIN levels : levels[k] = (IF k <= n THEN "free" ELSE "paid")

UserIds == {e.userId : e \in LogEvents}

\* C5: when the events loaded for user u are free ones followed by paid ones,
\* the users table holds exactly one row for u, with level "paid".
C5_FreeThenPaid == \A u \in UserIds : FreeThenPaid(LevelsOf(u, loaded)) => \E r \in committed.users : r.user_id = u /\ r.level = "paid" /\ \A q \in committed.users : q.user_id = u => q = r

\* C5 witness: a free event loaded from one file, then a free and a paid event
\* loaded from the next file.
C5_Witness == pc = "log_loop" /\ i = 2 /\ Len(all_files[1].content.events) = 1 /\ LevelsOf(7, loaded) = <<"free", "free", "paid">>

\* The data files of a tree: its *.json files outside .ipynb_checkpoints.
IsDataFile(e) == e.kind = "json"
DataFiles(dir) == IF dir.exists THEN SelectSeq(dir.entries, IsDataFile) ELSE <<>>

C7_MatchGivesIds == last.run => \A k \in DOMAIN last.plays : MatchingPairs(last.before, Retained[k]) # {} => (k \in DOMAIN Added /\ RowOfEvent(Added[k], Retained[k]) /\ <<Added[k].song_id, Added[k].artist_id>> \in MatchingPairs(last.before, Retained[k]))

\* C7 witness: an event matching exactly one pair has its row.
C7_Witness == last.run /\ \E k \in DOMAIN Added : Cardinality(MatchingPairs(last.before, Retained[k])) = 1 /\ Added[k].song_id = "SOID1" /\ Added[k].artist_id = "ARID1"

\* The log files a run finds, and their NextSong events in all.
RECURSIVE RetainedCount(_)
RetainedCount(files) == IF files = <<>> THEN 0 ELSE Len(FilterNextSong(Head(files).content.events)) + RetainedCount(Tail(files))

\* C8: when a second run over the same log files has ended, songplays holds
\* one row more than after the first run for every NextSong event of the
\* files, and the time table is as the first run left it.
C8_RerunDuplicatesFacts == rerun /\ pc \in {"done", "exited"} => (Len(committed.songplays) = Len(first.songplays) + RetainedCount(DataFiles(fs.log_data)) /\ committed.time = first.time)

\* C9: time_df of the latest call has no two rows with one start_time, and
\* the time table, as seen and as committed, has at most one row per start_time.
C9_DistinctStartTimes == (\A j, k \in DOMAIN last.time_df : last.time_df[j].start_time = last.time_df[k].start_time => j = k) /\ (\A t \in {db.time, committed.time} : \A r, q \in t : r.start_time = q.start_time => r = q)

\* C9 witness: a file with two NextSong events of one ts has been processed.
C9_Witness == last.run /\ last.time_df # <<>> /\ \E j, k \in DOMAIN Retained : j # k /\ Retained[j].ts = Retained[k].ts

\* C10: when the latest process_log_file call has returned, every user of the
\* file's NextSong events has in users the level of the last of those events.
C10_LastEventLevel == last.run /\ last.err = "none" => \A u \in UserIds : LevelsOf(u, Retained) # <<>> => \A r \in last.db.users : r.user_id = u => r.level = LevelsOf(u, Retained)[Len(LevelsOf(u, Retained))]

====
